---- MODULE Spec2Model ----
(***************************************************************************)
(* Conversion orchestration of pkg/modules/libreoffice/routes.go:          *)
(*   - convertRoute           (PDF pipeline: convert, merge, reformat)     *)
(*   - generateThumnailRoute  (PNG pipeline)                               *)
(*   - createPNG              (conversion invoker over the LibreOffice     *)
(*                             listener, shared or ephemeral)              *)
(* The listener (lock/unlock/start/stop/port), the command runner, the     *)
(* uno.API and the PDF engine are collaborators whose code is not in       *)
(* routes.go; they are modelled from the specification (sections 4.1, 4.2, *)
(* 4.4 and 6).                                                             *)
(***************************************************************************)
EXTENDS Integers, Sequences, FiniteSets, TLC

\* ------------------------------------------------------------------ bounds
NumProcs == 2
MaxDocs == 2
MaxThreshold == 2
NumPorts == 2

Procs == 1..NumProcs
Docs == 1..MaxDocs
Ports == 1..NumPorts

\* gotenberg.FormatPDFA1a and one other format identifier; "" is "not set".
FormatPDFA1a == "PDF/A-1a"
Formats == {"", FormatPDFA1a, "PDF/A-2b"}
\* nativePageRanges values: not set, or a textual range.
PageRangeValues == {"", "1-3"}
\* Exit statuses of the worker that createPNG tells apart (0, 5, other).
ExitCodes == {0, 1, 5}

VARIABLES
    \* configuration
    restartThreshold,     \* mod.libreOfficeRestartThreshold
    sentinelIsUno,        \* the package's ErrMalformedPageRanges is (or wraps)
                          \* uno.ErrMalformedPageRanges
    \* shared listener (mod.listener) and the unlock goroutines
    lstate,               \* "Stopped" | "Running" | "Locked" | "Stopping"
    port,                 \* mod.listener.port()
    useCount,             \* uses since the last start
    unlockGo,             \* number of spawned unlock goroutines not yet run
    \* instance counter
    activeInstancesCount,
    \* one request per process
    req,                  \* the form of the request (NoReq before it arrives)
    ctxDone,              \* the request context is cancelled / expired
    rpc,                  \* position in the route handler
    idx,                  \* loop index i of the handler
    outputPaths,          \* the handler's outputPaths slice
    calls,                \* calls made to uno / createPNG / the PDF engine
    result,               \* paths added with ctx.AddOutputPaths
    convertOutputPaths,   \* the handler's convertOutputPaths slice
    resp,                 \* what the handler returned
    \* one createPNG activation per process
    ipc,                  \* position in createPNG
    deferred,             \* deferred function registered by createPNG
    argPort,              \* the "--port" argument (0: not yet appended)
    execRes,              \* (exitCode, err) of cmd.Exec() (NoExec before it)
    ret,                  \* the error createPNG returned, until the handler
                          \* has read it (NoRet otherwise)
    priv                  \* the private listener of ephemeral mode

lvars == <<lstate, port, useCount, unlockGo>>
rvars == <<req, rpc, idx, outputPaths, convertOutputPaths, calls, result,
          resp>>
ivars == <<ipc, deferred, argPort, execRes, ret, priv>>
vars == <<restartThreshold, sentinelIsUno, lstate, port, useCount, unlockGo,
          activeInstancesCount, req, ctxDone, rpc, idx, outputPaths,
          convertOutputPaths, calls, result, resp, ipc, deferred, argPort,
          execRes, ret, priv>>

\* ------------------------------------------------------------ small helpers
NoReq == [route |-> "none"]
NilErr == [kind |-> "nil", wraps |-> "nil"]
NoResp == [status |-> 0, err |-> "pending", detail |-> "", cause |-> NilErr]
NoExec == [exitCode |-> 0, err |-> "none"]
NoRet == [kind |-> "none", wraps |-> "none"]

\* The sentinel createPNG returns (the package's own ErrMalformedPageRanges,
\* which routes.go does not declare) and the sentinel both handlers test for.
ErrMalformedPageRanges == [kind |-> "malformed", wraps |-> "nil"]
UnoErrMalformedPageRanges == [kind |-> "unoMalformed", wraps |-> "nil"]

\* Sequences of distinct documents of length 1..MaxDocs (MandatoryPaths).
InputPathSeqs ==
    UNION {{s \in [1..n -> Docs] : \A a, b \in 1..n : a # b => s[a] # s[b]}
           : n \in 1..MaxDocs}


\* ------------------------------------------------ listener (specification 4.2)
\* Outcomes of mod.listener.lock(ctx, logger) for the caller p:
\*   "ok"      exclusive access to the Running listener is granted; a listener
\*             left Stopped by a failed restart is started again first;
\*   "start"   that start failed;
\*   "cancel"  ctx was done before the lock was granted: a caller whose
\*             context is done is never granted the lock.
LockOutcomes == {"ok", "start", "cancel"}

ListenerLock(p, o) ==
    \/ /\ o = "ok"
       /\ ~ctxDone[p]
       /\ lstate = "Running"
       /\ lstate' = "Locked"
       /\ UNCHANGED <<port, useCount>>
    \/ /\ o = "ok"
       /\ ~ctxDone[p]
       /\ lstate = "Stopped"
       /\ lstate' = "Locked"
       /\ port' \in Ports \ {port}
       /\ useCount' = 0
    \/ /\ o = "start"
       /\ ~ctxDone[p]
       /\ lstate = "Stopped"
       /\ UNCHANGED <<lstate, port, useCount>>
    \/ /\ o = "cancel"
       /\ ctxDone[p]
       /\ UNCHANGED <<lstate, port, useCount>>

\* mod.listener.unlock(logger): releases exclusivity and counts the use; once
\* the threshold is reached the listener leaves Running for its restart.
ListenerUnlock ==
    IF lstate = "Locked"
    THEN /\ useCount' = useCount + 1
         /\ lstate' = IF useCount + 1 >= restartThreshold
                      THEN "Stopping" ELSE "Running"
         /\ port' = port
    ELSE UNCHANGED <<lstate, port, useCount>>

\* The asynchronous stop + start that unlock() schedules.  It runs on the
\* supervisor's own context: no request context guards it.
ListenerRestart ==
    /\ lstate = "Stopping"
    /\ \/ /\ lstate' = "Running"
          /\ port' \in Ports \ {port}
          /\ useCount' = 0
       \/ /\ lstate' = "Stopped"
          /\ UNCHANGED <<port, useCount>>
    /\ UNCHANGED <<restartThreshold, sentinelIsUno, unlockGo, activeInstancesCount, ctxDone>>
    /\ UNCHANGED rvars
    /\ UNCHANGED ivars

\* ------------------------------------------- command runner (specification 4.1)
\* (exitCode, err) of cmd.Exec(): a nil error with the exit status, an error
\* of the process, or the cancellation error once ctx is done.
ExecOutcomes(p) ==
    {[exitCode |-> c, err |-> "nil"] : c \in ExitCodes}
    \cup {[exitCode |-> c, err |-> "exit"] : c \in ExitCodes \ {0}}
    \cup (IF ctxDone[p]
          THEN {[exitCode |-> c, err |-> "cancel"] : c \in ExitCodes}
          ELSE {})

\* The request context of p is cancelled or expires while p is in flight.
Cancel(p) ==
    /\ rpc[p] \in {"loop", "call", "merge", "mconv", "each", "add"}
    /\ ~ctxDone[p]
    /\ ctxDone' = [ctxDone EXCEPT ![p] = TRUE]
    /\ UNCHANGED <<restartThreshold, sentinelIsUno, activeInstancesCount>>
    /\ UNCHANGED lvars
    /\ UNCHANGED rvars
    /\ UNCHANGED ivars

\* ------------------------------------------------------------ route helpers
\* The forms a client can send.  formOK is the outcome of Validate().
Forms(routes) ==
    [route : routes, inputPaths : InputPathSeqs, landscape : BOOLEAN,
     nativePageRanges : PageRangeValues, nativePdfA1aFormat : BOOLEAN,
     nativePdfFormat : Formats, pdfFormat : Formats, merge : BOOLEAN,
     formOK : BOOLEAN]

ConvertRequests == Forms({"convert"})

\* The thumbnail route binds inputPaths, landscape and nativePageRanges only
\* and overrides the page selection; of the fields it does not read, the
\* forms tried carry the three format options, with one format identifier.
ThumbnailRequests ==
    {r \in Forms({"thumbnail"}) :
        /\ ~r.landscape /\ ~r.merge /\ r.nativePageRanges = ""
        /\ r.nativePdfFormat \in {"", FormatPDFA1a}
        /\ r.pdfFormat \in {"", FormatPDFA1a}}

\* The requests of the concurrent specification: valid thumbnail requests
\* with no format option, of two documents from process 1 and of one
\* document from the others.
ConcRequests(p) ==
    {r \in ThumbnailRequests :
        /\ r.formOK
        /\ ~r.nativePdfA1aFormat /\ r.nativePdfFormat = "" /\ r.pdfFormat = ""
        /\ r.inputPaths = IF p = 1 THEN <<1, 2>> ELSE <<1>>}

\* The requests of the specification with fairness: one document each.
LiveRequests ==
    {r \in ThumbnailRequests :
        /\ r.formOK
        /\ ~r.nativePdfA1aFormat /\ r.nativePdfFormat = "" /\ r.pdfFormat = ""
        /\ r.inputPaths = <<1>>}

\* The mutually exclusive form fields, in the order the handler tests them.
ExclusiveError(nativePDFA1aFormat, nativePDFformat, PDFformat) ==
    IF nativePDFA1aFormat /\ nativePDFformat # "" THEN "bothNativeAndA1a"
    ELSE IF nativePDFA1aFormat /\ PDFformat # "" THEN "bothPdfAndA1a"
    ELSE IF nativePDFformat # "" /\ PDFformat # "" THEN "bothPdfAndNative"
    ELSE ""

\* nativePDFformat after the deprecated flag has been folded into it.
NativeFormat(nativePDFA1aFormat, nativePDFformat) ==
    IF nativePDFA1aFormat THEN FormatPDFA1a ELSE nativePDFformat

\* uno.Options of a conversion: the thumbnail route forces PageRanges.
Options(p) ==
    [Landscape |-> req[p].landscape,
     PageRanges |-> IF req[p].route = "thumbnail" THEN "1"
                    ELSE req[p].nativePageRanges]

\* The i-th element of `range inputPaths`.
InputPathReversed(r, i) == r.inputPaths[Len(r.inputPaths) + 1 - i]

InputPath(r, i) == r.inputPaths[i]

\* ctx.GeneratePath: a path no earlier call of the request was given.
GeneratePath(p) == Len(calls[p]) + 1

Call(op, in, out, fmt, ok) ==
    [op |-> op, in |-> in, out |-> out, fmt |-> fmt, ok |-> ok]

\* The handler returns err (with the status the API answers for it); cause is
\* the error of the conversion invoker that err wraps, if any.  The request
\* context ends with the handler.
Respond(p, status, err, detail, cause) ==
    /\ resp' = [resp EXCEPT ![p] = [status |-> status, err |-> err,
                                     detail |-> detail, cause |-> cause]]
    /\ rpc' = [rpc EXCEPT ![p] = "done"]
    /\ ctxDone' = [ctxDone EXCEPT ![p] = TRUE]

\* ctx.AddOutputPaths(paths...) and the return that follows it.
AddOutputPaths(p, paths, errname) ==
    \/ /\ result' = [result EXCEPT ![p] = result[p] \o paths]
       /\ Respond(p, 200, "nil", "", NilErr)
    \/ /\ result' = result
       /\ Respond(p, 500, errname, "", NilErr)

\* Form validation and the option checks shared by both handlers, given the
\* values (a1a, nf, pf) the handler's three option variables hold.
Begin(p, r, a1a, nf, pf) ==
    /\ rpc[p] = "idle"
    /\ req' = [req EXCEPT ![p] = r]
    /\ IF ~r.formOK
       THEN /\ Respond(p, 400, "validate", "", NilErr)
            /\ UNCHANGED <<idx, outputPaths>>
       ELSE IF ExclusiveError(a1a, nf, pf) # ""
       THEN /\ Respond(p, 400, ExclusiveError(a1a, nf, pf), "", NilErr)
            /\ UNCHANGED <<idx, outputPaths>>
       ELSE /\ rpc' = [rpc EXCEPT ![p] = "loop"]
            /\ idx' = [idx EXCEPT ![p] = 1]
            /\ outputPaths' = [outputPaths EXCEPT ![p] =
                                  [k \in 1..Len(r.inputPaths) |-> 0]]
            /\ UNCHANGED <<resp, ctxDone>>
    /\ UNCHANGED <<restartThreshold, sentinelIsUno, activeInstancesCount,
                   convertOutputPaths, calls, result>>
    /\ UNCHANGED lvars
    /\ UNCHANGED ivars

\* ------------------------------------------------------ generateThumnailRoute
\* The handler starts.  Its option checks read nativePDFA1aFormat,
\* nativePDFformat and PDFformat, which the handler neither declares nor binds
\* to the form: their values do not come from the request.
generateThumnailRouteBegin(p, requests) ==
    /\ rpc[p] = "idle"
    /\ \E r \in requests :
          \E a1a \in BOOLEAN : \E nf \in Formats : \E pf \in Formats :
              Begin(p, r, a1a, nf, pf)

\* One iteration of the loop: createPNG is called.
generateThumnailRouteCall(p) ==
    /\ rpc[p] = "loop"
    /\ req[p].route = "thumbnail"
    /\ outputPaths' = [outputPaths EXCEPT ![p][idx[p]] = GeneratePath(p)]
    /\ rpc' = [rpc EXCEPT ![p] = "call"]
    /\ ipc' = [ipc EXCEPT ![p] = "enter"]
    /\ priv' = [priv EXCEPT ![p] = "none"]
    /\ UNCHANGED <<restartThreshold, sentinelIsUno, activeInstancesCount, req, ctxDone, idx,
                   convertOutputPaths, calls, result, resp, deferred, argPort,
                   execRes, ret>>
    /\ UNCHANGED lvars

\* errors.Is(err, uno.ErrMalformedPageRanges).
IsMalformedPageRanges(e) ==
    \/ e = UnoErrMalformedPageRanges
    \/ sentinelIsUno /\ e = ErrMalformedPageRanges

\* createPNG has returned e to the handler: the error is mapped, or the loop
\* goes on; after the last document the output paths are added.
generateThumnailRouteReturnGoesOn(p, e) ==
    LET r == req[p]
        i == idx[p]
    IN /\ calls' = [calls EXCEPT ![p] =
             Append(@, Call("PNG", <<InputPath(r, i)>>, outputPaths[p][i],
                            "", e = NilErr))]
       /\ IF i < Len(r.inputPaths)
          THEN /\ idx' = [idx EXCEPT ![p] = i + 1]
               /\ rpc' = [rpc EXCEPT ![p] = "loop"]
               /\ UNCHANGED <<resp, result, ctxDone>>
          ELSE /\ AddOutputPaths(p, outputPaths[p], "addOutputPaths")
               /\ idx' = idx
       /\ UNCHANGED <<req, outputPaths, convertOutputPaths>>

generateThumnailRouteReturn(p, e) ==
    LET r == req[p]
        i == idx[p]
    IN /\ calls' = [calls EXCEPT ![p] =
             Append(@, Call("PNG", <<InputPath(r, i)>>, outputPaths[p][i],
                            "", e = NilErr))]
       /\ IF e # NilErr
          THEN /\ IF IsMalformedPageRanges(e)
                  THEN Respond(p, 400, "malformedPageRanges",
                               Options(p).PageRanges, e)
                  ELSE Respond(p, 500, "createThumbnail", "", e)
               /\ UNCHANGED <<idx, result>>
          ELSE IF i < Len(r.inputPaths)
          THEN /\ idx' = [idx EXCEPT ![p] = i + 1]
               /\ rpc' = [rpc EXCEPT ![p] = "loop"]
               /\ UNCHANGED <<resp, result, ctxDone>>
          ELSE /\ AddOutputPaths(p, outputPaths[p], "addOutputPaths")
               /\ idx' = idx
       /\ UNCHANGED <<req, outputPaths, convertOutputPaths>>

\* ----------------------------------------------------------------- createPNG
\* createPNG returns e to the handler: the deferred function runs.  The
\* deferred unlock only spawns the goroutine that will call unlock(); the
\* deferred stop stops the private listener (a failure is logged).
ReturnUnlockTwice(p, e) ==
    /\ ipc' = [ipc EXCEPT ![p] = "idle"]
    /\ argPort' = [argPort EXCEPT ![p] = 0]
    /\ execRes' = [execRes EXCEPT ![p] = NoExec]
    /\ deferred' = [deferred EXCEPT ![p] = "none"]
    /\ unlockGo' = IF deferred[p] = "unlock" THEN unlockGo + 2 ELSE unlockGo
    /\ IF deferred[p] = "stop"
       THEN \E s \in {"stopped", "stopfailed"} : priv' = [priv EXCEPT ![p] = s]
       ELSE priv' = priv
    /\ ret' = [ret EXCEPT ![p] = e]
    /\ UNCHANGED ctxDone
    /\ UNCHANGED rvars

ReturnSkipsCancelled(p, e) ==
    /\ ipc' = [ipc EXCEPT ![p] = "idle"]
    /\ argPort' = [argPort EXCEPT ![p] = 0]
    /\ execRes' = [execRes EXCEPT ![p] = NoExec]
    /\ deferred' = [deferred EXCEPT ![p] = "none"]
    /\ unlockGo' = IF deferred[p] = "unlock" /\ ~ctxDone[p]
                   THEN unlockGo + 1 ELSE unlockGo
    /\ IF deferred[p] = "stop"
       THEN \E s \in {"stopped", "stopfailed"} : priv' = [priv EXCEPT ![p] = s]
       ELSE priv' = priv
    /\ ret' = [ret EXCEPT ![p] = e]
    /\ UNCHANGED ctxDone
    /\ UNCHANGED rvars

Return(p, e) ==
    /\ ipc' = [ipc EXCEPT ![p] = "idle"]
    /\ argPort' = [argPort EXCEPT ![p] = 0]
    /\ execRes' = [execRes EXCEPT ![p] = NoExec]
    /\ deferred' = [deferred EXCEPT ![p] = "none"]
    /\ unlockGo' = IF deferred[p] = "unlock" THEN unlockGo + 1 ELSE unlockGo
    /\ IF deferred[p] = "stop"
       THEN \E s \in {"stopped", "stopfailed"} : priv' = [priv EXCEPT ![p] = s]
       ELSE priv' = priv
    /\ ret' = [ret EXCEPT ![p] = e]
    /\ UNCHANGED ctxDone
    /\ UNCHANGED rvars

\* createPNG goes on to position pos; the handler waits.
Goto(p, pos) ==
    /\ ipc' = [ipc EXCEPT ![p] = pos]
    /\ UNCHANGED <<ctxDone, execRes, ret>>
    /\ UNCHANGED rvars

\* listener.port() of the private listener of p's call: a freshly chosen
\* port, none of the shared listener's and none of another call's.
PrivatePort(p) == NumPorts + p

\* case 0: a private listener is started for this call.
createPNGStartNoDefer(p) ==
    /\ ipc[p] = "enter"
    /\ restartThreshold = 0
    /\ \/ /\ priv' = [priv EXCEPT ![p] = "running"]
          /\ argPort' = [argPort EXCEPT ![p] = PrivatePort(p)]
          /\ Goto(p, "cmd")
          /\ UNCHANGED <<unlockGo, deferred>>
       \/ Return(p, [kind |-> "start", wraps |-> "fail"])
    /\ UNCHANGED <<restartThreshold, sentinelIsUno, lstate, port, useCount,
                   activeInstancesCount>>

createPNGStart(p) ==
    /\ ipc[p] = "enter"
    /\ restartThreshold = 0
    /\ \/ /\ priv' = [priv EXCEPT ![p] = "running"]
          /\ deferred' = [deferred EXCEPT ![p] = "stop"]
          /\ argPort' = [argPort EXCEPT ![p] = PrivatePort(p)]
          /\ Goto(p, "cmd")
          /\ UNCHANGED unlockGo
       \/ Return(p, [kind |-> "start", wraps |-> "fail"])
    /\ UNCHANGED <<restartThreshold, sentinelIsUno, lstate, port, useCount,
                   activeInstancesCount>>

\* default: lock the long-running listener; an error is returned at once.
createPNGLockNoReturn(p) ==
    /\ ipc[p] = "enter"
    /\ restartThreshold # 0
    /\ \E o \in LockOutcomes :
          /\ ListenerLock(p, o)
          /\ Goto(p, "locked")
          /\ UNCHANGED <<deferred, unlockGo, priv, argPort>>
    /\ UNCHANGED <<restartThreshold, sentinelIsUno, activeInstancesCount>>

createPNGLockIgnoresStart(p) ==
    /\ ipc[p] = "enter"
    /\ restartThreshold # 0
    /\ \E o \in LockOutcomes :
          /\ ListenerLock(p, o)
          /\ IF o \in {"ok", "start"}
             THEN /\ Goto(p, "locked")
                  /\ UNCHANGED <<deferred, unlockGo, priv, argPort>>
             ELSE Return(p, [kind |-> "lock", wraps |-> o])
    /\ UNCHANGED <<restartThreshold, sentinelIsUno, activeInstancesCount>>

createPNGLockDefersFirst(p) ==
    /\ ipc[p] = "enter"
    /\ restartThreshold # 0
    /\ \E o \in LockOutcomes :
          /\ ListenerLock(p, o)
          /\ IF o = "ok"
             THEN /\ Goto(p, "locked")
                  /\ UNCHANGED <<deferred, unlockGo, priv, argPort>>
             ELSE /\ ipc' = [ipc EXCEPT ![p] = "idle"]
                  /\ UNCHANGED <<argPort, execRes, deferred, priv>>
                  /\ unlockGo' = unlockGo + 1
                  /\ ret' = [ret EXCEPT ![p] = [kind |-> "lock", wraps |-> o]]
                  /\ UNCHANGED ctxDone
                  /\ UNCHANGED rvars
    /\ UNCHANGED <<restartThreshold, sentinelIsUno, activeInstancesCount>>

createPNGLock(p) ==
    /\ ipc[p] = "enter"
    /\ restartThreshold # 0
    /\ \E o \in LockOutcomes :
          /\ ListenerLock(p, o)
          /\ IF o = "ok"
             THEN /\ Goto(p, "locked")
                  /\ UNCHANGED <<deferred, unlockGo, priv, argPort>>
             ELSE Return(p, [kind |-> "lock", wraps |-> o])
    /\ UNCHANGED <<restartThreshold, sentinelIsUno, activeInstancesCount>>

\* The unlock is deferred, then the port is read (after the lock).
createPNGPortNoDefer(p) ==
    /\ ipc[p] = "locked"
    /\ unlockGo' = unlockGo + 1
    /\ argPort' = [argPort EXCEPT ![p] = port]
    /\ Goto(p, "cmd")
    /\ UNCHANGED <<restartThreshold, sentinelIsUno, lstate, port, useCount, deferred,
                   activeInstancesCount, priv>>

createPNGPortNoUnlock(p) ==
    /\ ipc[p] = "locked"
    /\ argPort' = [argPort EXCEPT ![p] = port]
    /\ Goto(p, "cmd")
    /\ UNCHANGED <<restartThreshold, sentinelIsUno, lstate, port, useCount, unlockGo,
                   deferred, activeInstancesCount, priv>>

createPNGPort(p) ==
    /\ ipc[p] = "locked"
    /\ deferred' = [deferred EXCEPT ![p] = "unlock"]
    /\ argPort' = [argPort EXCEPT ![p] = port]
    /\ Goto(p, "cmd")
    /\ UNCHANGED <<restartThreshold, sentinelIsUno, lstate, port, useCount, unlockGo,
                   activeInstancesCount, priv>>

\* gotenberg.CommandContext, then the instance counter is incremented.
createPNGCommand(p) ==
    /\ ipc[p] = "cmd"
    /\ \/ /\ activeInstancesCount' = activeInstancesCount + 1
          /\ Goto(p, "exec")
          /\ UNCHANGED <<deferred, unlockGo, priv, argPort>>
       \/ /\ Return(p, [kind |-> "create", wraps |-> "fail"])
          /\ UNCHANGED activeInstancesCount
    /\ UNCHANGED <<restartThreshold, sentinelIsUno, lstate, port, useCount>>

\* The error createPNG returns for (exitCode, err) and the options.
ExecError(r, options) ==
    IF r.err = "nil" THEN NilErr
    ELSE IF r.exitCode = 5 /\ options.PageRanges # ""
         THEN ErrMalformedPageRanges
         ELSE [kind |-> "unoconv", wraps |-> r.err]

\* cmd.Exec() runs the worker against argPort and returns (exitCode, err).
createPNGExec(p) ==
    /\ ipc[p] = "exec"
    /\ \E o \in ExecOutcomes(p) : execRes' = [execRes EXCEPT ![p] = o]
    /\ ipc' = [ipc EXCEPT ![p] = "ran"]
    /\ UNCHANGED <<restartThreshold, sentinelIsUno, activeInstancesCount,
                   ctxDone, deferred, argPort, ret, priv>>
    /\ UNCHANGED lvars
    /\ UNCHANGED rvars

\* activeInstancesCount -= 1 under activeInstancesCountMu, a step of its own:
\* other goroutines run between it and the return of createPNG.
createPNGDecrementOnSuccess(p) ==
    /\ ipc[p] = "ran"
    /\ activeInstancesCount' = IF execRes[p].err = "nil"
                               THEN activeInstancesCount - 1
                               ELSE activeInstancesCount
    /\ ipc' = [ipc EXCEPT ![p] = "dec"]
    /\ UNCHANGED <<restartThreshold, sentinelIsUno, ctxDone, deferred, argPort,
                   execRes, ret, priv>>
    /\ UNCHANGED lvars
    /\ UNCHANGED rvars

createPNGDecrement(p) ==
    /\ ipc[p] = "ran"
    /\ activeInstancesCount' = activeInstancesCount - 1
    /\ ipc' = [ipc EXCEPT ![p] = "dec"]
    /\ UNCHANGED <<restartThreshold, sentinelIsUno, ctxDone, deferred, argPort,
                   execRes, ret, priv>>
    /\ UNCHANGED lvars
    /\ UNCHANGED rvars

\* The outcome of the run is mapped to the error returned.
createPNGReturnUnlockOnSuccess(p) ==
    LET e == ExecError(execRes[p], Options(p))
    IN /\ ipc[p] = "dec"
       /\ ipc' = [ipc EXCEPT ![p] = "idle"]
       /\ argPort' = [argPort EXCEPT ![p] = 0]
       /\ execRes' = [execRes EXCEPT ![p] = NoExec]
       /\ deferred' = [deferred EXCEPT ![p] = "none"]
       /\ unlockGo' = IF deferred[p] = "unlock" /\ e = NilErr
                      THEN unlockGo + 1 ELSE unlockGo
       /\ priv' = priv
       /\ ret' = [ret EXCEPT ![p] = e]
       /\ UNCHANGED ctxDone
       /\ UNCHANGED rvars
       /\ UNCHANGED <<restartThreshold, sentinelIsUno, lstate, port, useCount,
                      activeInstancesCount>>

createPNGReturn(p) ==
    /\ ipc[p] = "dec"
    /\ Return(p, ExecError(execRes[p], Options(p)))
    /\ UNCHANGED <<restartThreshold, sentinelIsUno, lstate, port, useCount,
                   activeInstancesCount>>

\* go func() { mod.listener.unlock(logger) }(): an error is only logged.
UnlockGoroutineReported ==
    /\ unlockGo > 0
    /\ unlockGo' = unlockGo - 1
    /\ ListenerUnlock
    /\ resp' = [p \in Procs |->
                  IF rpc[p] = "done" /\ resp[p].status = 200
                  THEN [resp[p] EXCEPT !.status = 500, !.err = "unlock"]
                  ELSE resp[p]]
    /\ UNCHANGED <<restartThreshold, sentinelIsUno, activeInstancesCount, ctxDone, req, rpc,
                   idx, outputPaths, convertOutputPaths, calls, result>>
    /\ UNCHANGED ivars

UnlockGoroutine ==
    /\ unlockGo > 0
    /\ unlockGo' = unlockGo - 1
    /\ ListenerUnlock
    /\ UNCHANGED <<restartThreshold, sentinelIsUno, activeInstancesCount, ctxDone>>
    /\ UNCHANGED rvars
    /\ UNCHANGED ivars

\* The handler goes on with the error createPNG returned.
generateThumnailRouteResume(p) ==
    /\ rpc[p] = "call"
    /\ ipc[p] = "idle"
    /\ ret[p] # NoRet
    /\ generateThumnailRouteReturn(p, ret[p])
    /\ ret' = [ret EXCEPT ![p] = NoRet]
    /\ UNCHANGED <<restartThreshold, sentinelIsUno, activeInstancesCount, ipc,
                   deferred, argPort, execRes, priv>>
    /\ UNCHANGED lvars

\* --------------------------------------------------------------- convertRoute
\* The handler starts: the form is bound and validated, the options checked.
convertRouteBegin(p) ==
    /\ rpc[p] = "idle"
    /\ \E r \in ConvertRequests :
          Begin(p, r, r.nativePdfA1aFormat, r.nativePdfFormat, r.pdfFormat)

\* unoAPI.PDF (specification 4.4): nil, uno.ErrMalformedPageRanges (only with
\* a page selection), or another error.
PDFOutcomes(options) ==
    {NilErr, [kind |-> "unoconv", wraps |-> "exit"]}
    \cup (IF options.PageRanges # ""
          THEN {UnoErrMalformedPageRanges} ELSE {})

\* What follows the conversion loop: merge, reformat each file, or add.
AfterLoopNoQuickWin(r) ==
    IF r.merge THEN "merge"
    ELSE IF r.pdfFormat # "" THEN "each"
    ELSE "add"

AfterLoop(r) ==
    IF Len(r.inputPaths) > 1 /\ r.merge THEN "merge"
    ELSE IF r.pdfFormat # "" THEN "each"
    ELSE "add"

\* One iteration of the conversion loop.
convertRouteDocument(p) ==
    /\ rpc[p] = "loop"
    /\ req[p].route = "convert"
    /\ LET r == req[p]
           i == idx[p]
           out == GeneratePath(p)
           fmt == NativeFormat(r.nativePdfA1aFormat, r.nativePdfFormat)
       IN \E e \in PDFOutcomes(Options(p)) :
             /\ calls' = [calls EXCEPT ![p] =
                   Append(@, Call("PDF", <<InputPath(r, i)>>, out, fmt, e = NilErr))]
             /\ outputPaths' = [outputPaths EXCEPT ![p][i] = out]
             /\ IF e # NilErr
                THEN /\ IF IsMalformedPageRanges(e)
                        THEN Respond(p, 400, "malformedPageRanges",
                                     Options(p).PageRanges, e)
                        ELSE Respond(p, 500, "convertToPDF", "", e)
                     /\ idx' = idx
                ELSE IF i < Len(r.inputPaths)
                THEN /\ idx' = [idx EXCEPT ![p] = i + 1]
                     /\ UNCHANGED <<rpc, resp, ctxDone>>
                ELSE /\ idx' = [idx EXCEPT ![p] = 1]
                     /\ rpc' = [rpc EXCEPT ![p] = AfterLoop(r)]
                     /\ UNCHANGED <<resp, ctxDone>>
    /\ UNCHANGED <<restartThreshold, sentinelIsUno, activeInstancesCount, req,
                   convertOutputPaths, result>>
    /\ UNCHANGED lvars
    /\ UNCHANGED ivars

\* The input paths handed to engine.Merge.
MergeInputsReversed(p) ==
    [k \in 1..Len(outputPaths[p]) |->
        outputPaths[p][Len(outputPaths[p]) + 1 - k]]

MergeInputs(p) == outputPaths[p]

\* engine.Merge on all the outputs; without pdfFormat the merged file is the
\* result.
convertRouteMerge(p) ==
    /\ rpc[p] = "merge"
    /\ LET out == GeneratePath(p)
       IN \E ok \in BOOLEAN :
             /\ calls' = [calls EXCEPT ![p] =
                   Append(@, Call("Merge", MergeInputs(p), out, "", ok))]
             /\ IF ~ok
                THEN /\ Respond(p, 500, "mergePDFs", "", NilErr)
                     /\ result' = result
                ELSE IF req[p].pdfFormat # ""
                THEN /\ rpc' = [rpc EXCEPT ![p] = "mconv"]
                     /\ UNCHANGED <<resp, result, ctxDone>>
                ELSE AddOutputPaths(p, <<out>>, "addOutputPath")
    /\ UNCHANGED <<restartThreshold, sentinelIsUno, activeInstancesCount, req, idx,
                   outputPaths, convertOutputPaths>>
    /\ UNCHANGED lvars
    /\ UNCHANGED ivars

\* engine.Convert: nil, gotenberg.ErrPDFFormatNotAvailable, or another error.
ConvertOutcomes == {"nil", "notAvailable", "fail"}

\* The response to a failed engine.Convert.
ConvertFailure(p, o) ==
    IF o = "notAvailable"
    THEN Respond(p, 400, "formatNotAvailable", req[p].pdfFormat, NilErr)
    ELSE Respond(p, 500, "convertPDF", "", NilErr)

\* The merged file (the output of the last call, engine.Merge).
MergedPath(p) == calls[p][Len(calls[p])].out

\* engine.Convert on the merged file; the converted file is the result.
convertRouteMergedFormat(p) ==
    /\ rpc[p] = "mconv"
    /\ LET out == GeneratePath(p)
       IN \E o \in ConvertOutcomes :
             /\ calls' = [calls EXCEPT ![p] =
                   Append(@, Call("Convert", <<MergedPath(p)>>, out,
                                  req[p].pdfFormat, o = "nil"))]
             /\ IF o # "nil"
                THEN /\ ConvertFailure(p, o)
                     /\ result' = result
                ELSE AddOutputPaths(p, <<out>>, "addOutputPath")
    /\ UNCHANGED <<restartThreshold, sentinelIsUno, activeInstancesCount, req, idx,
                   outputPaths, convertOutputPaths>>
    /\ UNCHANGED lvars
    /\ UNCHANGED ivars

\* The paths the handler adds after the reformat loop: outputPaths has been
\* replaced by the converted files cop.
FinalPathsUnconverted(p, cop) == outputPaths[p]

FinalPaths(p, cop) == cop

\* One iteration of the loop that reformats each file; after the last one
\* the converted files replace outputPaths.
convertRouteEach(p) ==
    /\ rpc[p] = "each"
    /\ LET i == idx[p]
           out == GeneratePath(p)
           cop == IF i = 1 THEN [k \in 1..Len(outputPaths[p]) |-> 0]
                  ELSE convertOutputPaths[p]
       IN \E o \in ConvertOutcomes :
             /\ calls' = [calls EXCEPT ![p] =
                   Append(@, Call("Convert", <<outputPaths[p][i]>>, out,
                                  req[p].pdfFormat, o = "nil"))]
             /\ convertOutputPaths' =
                   [convertOutputPaths EXCEPT ![p] = [cop EXCEPT ![i] = out]]
             /\ IF o # "nil"
                THEN /\ ConvertFailure(p, o)
                     /\ UNCHANGED <<idx, outputPaths>>
                ELSE IF i < Len(outputPaths[p])
                THEN /\ idx' = [idx EXCEPT ![p] = i + 1]
                     /\ UNCHANGED <<rpc, resp, outputPaths, ctxDone>>
                ELSE /\ outputPaths' = [outputPaths EXCEPT ![p] =
                                           FinalPaths(p, [cop EXCEPT ![i] = out])]
                     /\ rpc' = [rpc EXCEPT ![p] = "add"]
                     /\ UNCHANGED <<idx, resp, ctxDone>>
    /\ UNCHANGED <<restartThreshold, sentinelIsUno, activeInstancesCount, req, result>>
    /\ UNCHANGED lvars
    /\ UNCHANGED ivars

\* ctx.AddOutputPaths(outputPaths...) at the end of the handler.
convertRouteAdd(p) ==
    /\ rpc[p] = "add"
    /\ AddOutputPaths(p, outputPaths[p], "addOutputPaths")
    /\ UNCHANGED <<restartThreshold, sentinelIsUno, activeInstancesCount, req, idx,
                   outputPaths, convertOutputPaths, calls>>
    /\ UNCHANGED lvars
    /\ UNCHANGED ivars

\* ------------------------------------------------------------ specifications
Init ==
    /\ restartThreshold \in 0..MaxThreshold
    /\ sentinelIsUno \in BOOLEAN
    /\ lstate = IF restartThreshold = 0 THEN "Stopped" ELSE "Running"
    /\ port = 1
    /\ useCount = 0
    /\ unlockGo = 0
    /\ activeInstancesCount = 0
    /\ req = [p \in Procs |-> NoReq]
    /\ ctxDone = [p \in Procs |-> FALSE]
    /\ rpc = [p \in Procs |-> "idle"]
    /\ idx = [p \in Procs |-> 0]
    /\ outputPaths = [p \in Procs |-> <<>>]
    /\ convertOutputPaths = [p \in Procs |-> <<>>]
    /\ calls = [p \in Procs |-> <<>>]
    /\ result = [p \in Procs |-> <<>>]
    /\ resp = [p \in Procs |-> NoResp]
    /\ ipc = [p \in Procs |-> "idle"]
    /\ deferred = [p \in Procs |-> "none"]
    /\ argPort = [p \in Procs |-> 0]
    /\ execRes = [p \in Procs |-> NoExec]
    /\ ret = [p \in Procs |-> NoRet]
    /\ priv = [p \in Procs |-> "none"]

\* The next step of the goroutine of p's request: the thumbnail handler and
\* createPNG over the shared listener (at most one of these is enabled).
Proceed(p) ==
    \/ generateThumnailRouteCall(p)
    \/ createPNGLock(p)
    \/ createPNGPort(p)
    \/ createPNGCommand(p)
    \/ createPNGExec(p)
    \/ createPNGDecrement(p)
    \/ createPNGReturn(p)
    \/ generateThumnailRouteResume(p)

Invoker(p) ==
    \/ Proceed(p)
    \/ Cancel(p)

\* One request, of either route, with every form.
Next ==
    \/ convertRouteBegin(1)
    \/ generateThumnailRouteBegin(1, ThumbnailRequests)
    \/ convertRouteDocument(1)
    \/ convertRouteMerge(1)
    \/ convertRouteMergedFormat(1)
    \/ convertRouteEach(1)
    \/ convertRouteAdd(1)
    \/ createPNGStart(1)
    \/ Invoker(1)
    \/ UnlockGoroutine
    \/ ListenerRestart

Spec == Init /\ [][Next]_vars

\* Concurrent thumbnail requests over the shared listener, in either build.
ConcInit == Init /\ restartThreshold > 0

ConcNext ==
    \/ \E p \in Procs : generateThumnailRouteBegin(p, ConcRequests(p))
    \/ \E p \in Procs : Invoker(p)
    \/ UnlockGoroutine
    \/ ListenerRestart

ConcSpec == ConcInit /\ [][ConcNext]_vars

\* Concurrent one-document thumbnail requests in either mode: private
\* listeners (restartThreshold = 0) or the shared listener.
ModesNext ==
    \/ \E p \in Procs : generateThumnailRouteBegin(p, LiveRequests)
    \/ \E p \in Procs : createPNGStart(p)
    \/ \E p \in Procs : Invoker(p)
    \/ UnlockGoroutine
    \/ ListenerRestart

ModesSpec == Init /\ [][ModesNext]_vars

\* The scheduling the liveness properties rest on: a goroutine that can take
\* its next step takes it (the Go scheduler), a worker run ends, a start of
\* the listener returns.  Nothing forces a request to arrive or a context to
\* be cancelled.
Fairness ==
    /\ WF_vars(UnlockGoroutine)
    /\ WF_vars(ListenerRestart)
    /\ \A p \in Procs : WF_vars(Proceed(p))

LiveNext ==
    \/ \E p \in Procs : generateThumnailRouteBegin(p, LiveRequests)
    \/ \E p \in Procs : Invoker(p)
    \/ UnlockGoroutine
    \/ ListenerRestart

LiveSpec == ConcInit /\ [][LiveNext]_vars /\ Fairness


\* ------------------------------------------------------- reading the calls
\* The calls of p whose operation is in ops, in the order they were made.
CallsOf(p, ops) == SelectSeq(calls[p], LAMBDA c : c.op \in ops)

\* The output paths of a sequence of calls.
Outs(cs) == [k \in 1..Len(cs) |-> cs[k].out]

\* The single input of each call of a sequence of calls.
Ins(cs) == [k \in 1..Len(cs) |-> cs[k].in[1]]

\* The call of p that failed, if any, is the one at position k.
Failed(p, k) == ~calls[p][k].ok

\* The input document a path of p was made from: through the conversion that
\* wrote it, and through engine.Convert back to the file converted (0: none,
\* as for a merged file).
RECURSIVE Origin(_, _)
Origin(p, path) ==
    LET ks == {k \in 1..Len(calls[p]) : calls[p][k].out = path}
    IN IF ks = {} THEN 0
       ELSE LET c == calls[p][CHOOSE k \in ks : TRUE]
            IN IF c.op \in {"PDF", "PNG"} THEN c.in[1]
               ELSE IF c.op = "Convert" THEN Origin(p, c.in[1])
               ELSE 0

Arrived(p) == req[p].route # "none"
Done(p) == rpc[p] = "done"
Succeeded(p) == Done(p) /\ resp[p].status = 200
NumDocs(p) == Len(req[p].inputPaths)

\* The conversions past their lock() and not yet unlocked: inside createPNG
\* after the lock, or returned with the unlock goroutine still to run.
LockHolders ==
    Cardinality({p \in Procs :
                    ipc[p] \in {"locked", "cmd", "exec", "ran", "dec"}})
    + unlockGo

\* ------------------------------------------------------------------ claims
\* C1: with restartThreshold > 0 and concurrent conversions, at most one
\* conversion is between its lock() and its unlock() of the shared listener,
\* at most one worker run is in flight, and the active-instance counter never
\* exceeds 1.
C1_LockInvariant ==
    restartThreshold > 0 =>
        /\ LockHolders <= 1
        /\ Cardinality({p \in Procs : ipc[p] = "exec"}) <= 1
        /\ activeInstancesCount <= 1

\* C1 witness: a worker run is in flight while another conversion waits in
\* lock().
C1_Witness ==
    \E p, q \in Procs :
        /\ p # q
        /\ ipc[p] = "exec" /\ activeInstancesCount = 1
        /\ ipc[q] = "enter"

\* C2: in shared mode the port handed to the worker was read under the lock
\* and stays the port of the listener, which stays locked, until the run has
\* ended: no restart changes it in between.
C2_PortStable ==
    \A p \in Procs :
        (restartThreshold > 0 /\ ipc[p] \in {"cmd", "exec"}) =>
            /\ argPort[p] = port
            /\ lstate = "Locked"

\* C2 witness: a worker runs against a port that a restart assigned.
C2_Witness ==
    \E p \in Procs : ipc[p] = "exec" /\ argPort[p] # 1 /\ restartThreshold > 0

\* C3: once restartThreshold uses are completed no conversion holds the lock
\* until the listener has been started again; that start changes the port and
\* resets useCount to 0; and the port a conversion reads after its lock() is
\* the listener's: so the lock granted next after the threshold-th use
\* observes a port different from the one in use before.
C3_RestartInvariant ==
    /\ [](useCount >= restartThreshold /\ restartThreshold > 0
            => LockHolders = 0 /\ lstate \in {"Stopping", "Stopped"})
    /\ [][(restartThreshold > 0 /\ useCount >= restartThreshold
             /\ <<useCount, port, lstate>>' # <<useCount, port, lstate>>
             /\ lstate' # "Stopped")
            => (useCount' = 0 /\ port' # port)]_vars
    /\ [][\A p \in Procs :
            (restartThreshold > 0 /\ ipc[p] = "locked" /\ ipc'[p] = "cmd")
                => (argPort'[p] = port /\ useCount < restartThreshold)]_vars

\* C3 witness: with a threshold of 2, a conversion has read the port of a
\* listener restarted after two uses.
C3_Witness ==
    \E p \in Procs :
        /\ restartThreshold = 2 /\ useCount = 0 /\ port # 1
        /\ ipc[p] = "cmd" /\ argPort[p] = port


\* The number of the three exclusive options a form sets.
OptionsSet(r) ==
    (IF r.nativePdfA1aFormat THEN 1 ELSE 0)
    + (IF r.nativePdfFormat # "" THEN 1 ELSE 0)
    + (IF r.pdfFormat # "" THEN 1 ELSE 0)

\* C4: every request (its form valid) that sets two or more of
\* nativePdfA1aFormat, nativePdfFormat and pdfFormat is answered 400, no
\* conversion, merge or reformat call is made for it and no output path is
\* added.
C4_ExclusiveRejected ==
    \A p \in Procs :
        (Arrived(p) /\ req[p].formOK /\ OptionsSet(req[p]) >= 2) =>
            /\ calls[p] = <<>>
            /\ result[p] = <<>>
            /\ Done(p) => resp[p].status = 400

\* C5: a request with exactly one input document never has engine.Merge
\* called, whatever its merge flag, and when it succeeds its result holds
\* exactly one output path.
C5_SingleNoMerge ==
    \A p \in Procs :
        (Arrived(p) /\ NumDocs(p) = 1) =>
            /\ CallsOf(p, {"Merge"}) = <<>>
            /\ Succeeded(p) => Len(result[p]) = 1

\* C5 witness: a one-document request with merge set has succeeded.
C5_Witness ==
    \E p \in Procs :
        Succeeded(p) /\ NumDocs(p) = 1 /\ req[p].merge /\ Len(result[p]) = 1

\* C6: a successful N-document request with merge = false, with or without
\* pdfFormat, has exactly N output paths, the i-th made from the i-th input
\* document.
C6_OrderKept ==
    \A p \in Procs :
        (Succeeded(p) /\ ~req[p].merge) =>
            /\ Len(result[p]) = NumDocs(p)
            /\ \A i \in 1..NumDocs(p) :
                  Origin(p, result[p][i]) = req[p].inputPaths[i]

\* C6 witness: two documents, sent as <<2, 1>>, were converted and then
\* reformatted without merge.
C6_Witness ==
    \E p \in Procs :
        /\ Succeeded(p) /\ ~req[p].merge /\ req[p].pdfFormat # ""
        /\ req[p].inputPaths = <<2, 1>>
        /\ Len(result[p]) = 2

\* C7: for a request of the PDF route with N > 1 documents and merge set,
\* engine.Merge is called at most once, as the call right after N successful
\* conversions of the inputs in order, on their N outputs in that order; it
\* has been called once the handler is past the conversions; and on success
\* the result holds exactly one path.
C7_MergeOnce ==
    \A p \in Procs :
        (Arrived(p) /\ req[p].route = "convert" /\ req[p].formOK
            /\ NumDocs(p) > 1 /\ req[p].merge) =>
            LET n == NumDocs(p)
                pdfs == CallsOf(p, {"PDF"})
                merges == CallsOf(p, {"Merge"})
            IN /\ Len(merges) <= 1
               /\ Len(merges) = 1 =>
                     /\ Len(calls[p]) > n /\ calls[p][n + 1].op = "Merge"
                     /\ Len(pdfs) = n
                     /\ \A k \in 1..n : calls[p][k].op = "PDF" /\ calls[p][k].ok
                     /\ Ins(pdfs) = req[p].inputPaths
                     /\ merges[1].in = Outs(pdfs)
               /\ (Len(pdfs) = n /\ pdfs[n].ok /\ rpc[p] # "merge")
                     => Len(merges) = 1
               /\ Succeeded(p) => Len(result[p]) = 1

\* C7 witness: two documents, sent as <<2, 1>>, were merged and the request
\* has succeeded.
C7_Witness ==
    \E p \in Procs :
        /\ Succeeded(p) /\ req[p].merge /\ req[p].inputPaths = <<2, 1>>
        /\ Len(CallsOf(p, {"Merge"})) = 1

\* C8: a failed call is the last call of its request and leaves the result
\* empty: after a failed conversion no later document is converted and
\* neither engine.Merge nor engine.Convert is called; after a failed Merge or
\* Convert nothing is returned either.
C8_FailFast ==
    \A p \in Procs :
        \A k \in 1..Len(calls[p]) :
            Failed(p, k) =>
                /\ k = Len(calls[p])
                /\ result[p] = <<>>
                /\ Done(p) /\ resp[p].status # 200
                /\ calls[p][k].op \in {"PDF", "PNG"} =>
                      CallsOf(p, {"Merge", "Convert"}) = <<>>

\* C8 witness: the first of two thumbnails failed and the handler returned.
C8_Witness ==
    \E p \in Procs :
        /\ Done(p) /\ NumDocs(p) = 2 /\ req[p].route = "thumbnail"
        /\ Len(calls[p]) = 1 /\ Failed(p, 1)

\* C9: when the conversion invoker returns the malformed-page-range error
\* (uno's from unoAPI.PDF, the package's own from createPNG), the handler of
\* either route answers 400 with the malformed-page-ranges error and names
\* the page ranges given to the invoker.
C9_MalformedIs400 ==
    \A p \in Procs :
        \A k \in 1..Len(calls[p]) :
            (Failed(p, k)
                /\ resp[p].cause \in {ErrMalformedPageRanges,
                                      UnoErrMalformedPageRanges}) =>
                /\ resp[p].status = 400
                /\ resp[p].err = "malformedPageRanges"
                /\ resp[p].detail = Options(p).PageRanges
                /\ resp[p].detail # ""

\* The files pdfFormat applies to: the merged file, or every converted file.
Reformatted(p) ==
    IF CallsOf(p, {"Merge"}) # <<>> THEN Outs(CallsOf(p, {"Merge"}))
    ELSE Outs(CallsOf(p, {"PDF"}))

\* C10: a successful request of the PDF route with pdfFormat set has had
\* engine.Convert called once per file of the (possibly merged) set, in
\* order, and its result is exactly the outputs of those calls: one path if
\* merged, else N paths.
C10_ReformatAll ==
    \A p \in Procs :
        (Succeeded(p) /\ req[p].route = "convert" /\ req[p].pdfFormat # "") =>
            LET convs == CallsOf(p, {"Convert"})
            IN /\ Ins(convs) = Reformatted(p)
               /\ \A k \in 1..Len(convs) : convs[k].fmt = req[p].pdfFormat
               /\ result[p] = Outs(convs)
               /\ Len(result[p]) =
                     IF NumDocs(p) > 1 /\ req[p].merge THEN 1 ELSE NumDocs(p)

\* C10 witness: two documents were each reformatted, without merge.
C10_Witness ==
    \E p \in Procs :
        /\ Succeeded(p) /\ req[p].route = "convert" /\ req[p].pdfFormat # ""
        /\ NumDocs(p) = 2 /\ Len(CallsOf(p, {"Convert"})) = 2

\* The error createPNG has just returned to the handler of p.
Returned(p) == ret[p]

\* p returns from createPNG in this step.
Returns(p) == ipc[p] # "idle" /\ ipc'[p] = "idle"

\* C11: in shared mode a conversion whose lock() succeeded spawns exactly
\* one unlock on whichever path it returns (command-creation failure, worker
\* error, cancellation, success) and none when lock() failed; each unlock
\* called releases a locked listener, the listener is locked exactly while
\* one conversion is between its lock() and its unlock(), and every granted
\* lock is eventually released.
C11_UnlockOnce ==
    /\ [](LockHolders <= 1 /\ (lstate = "Locked" <=> LockHolders = 1))
    /\ [][\A p \in Procs :
            Returns(p) =>
                unlockGo' = IF ipc[p] = "enter" THEN unlockGo ELSE unlockGo + 1]_vars
    /\ [][unlockGo' < unlockGo =>
            /\ unlockGo' = unlockGo - 1
            /\ lstate = "Locked" /\ lstate' # "Locked"]_vars
    /\ []<>(lstate # "Locked")

\* C11 witness: the lock of a conversion cancelled during its worker run has
\* been released.
C11_Witness ==
    \E p \in Procs :
        /\ Done(p) /\ resp[p].cause = [kind |-> "unoconv", wraps |-> "cancel"]
        /\ restartThreshold = 2 /\ useCount = 1 /\ unlockGo = 0
        /\ lstate = "Running"

\* C12: createPNG reads the worker's exit code only when cmd.Exec()
\* returned a nil error: with a non-nil error the error returned is that
\* error wrapped, whatever the exit code, and a nil error with a non-zero
\* exit code is not returned as success.
C12_ExitCodeOnlyOnNil ==
    [][\A p \in Procs :
        (ipc[p] = "dec" /\ Returns(p)) =>
            /\ execRes[p].err # "nil" =>
                  Returned(p)' = [kind |-> "unoconv", wraps |-> execRes[p].err]
            /\ (execRes[p].err = "nil" /\ execRes[p].exitCode # 0) =>
                  Returned(p)' # NilErr]_vars

\* C13: a conversion whose cmd.Exec() returned the cancellation error
\* returns an error wrapping it, never the malformed-page-range error,
\* whatever the exit code and the page selection.
C13_CancelNeverMalformed ==
    [][\A p \in Procs :
        (ipc[p] = "dec" /\ Returns(p) /\ execRes[p].err = "cancel") =>
            /\ Returned(p)'.kind # "malformed"
            /\ Returned(p)'.wraps = "cancel"]_vars

\* C14: with restartThreshold = 0 the shared listener is never locked,
\* unlocked or restarted; the worker of a call runs only while the call's own
\* private listener runs; a call whose start() failed returns that error
\* without running the worker; a call whose start() succeeded has had stop()
\* called on its private listener when it returns, on every return path, and
\* returns what it would return anyway, whether stop() failed or not.
C14_Ephemeral ==
    /\ [](restartThreshold = 0 =>
            /\ lstate = "Stopped" /\ port = 1 /\ useCount = 0 /\ unlockGo = 0
            /\ \A p \in Procs :
                  /\ ipc[p] # "locked" /\ deferred[p] # "unlock"
                  /\ ipc[p] \in {"cmd", "exec", "ran", "dec"}
                        <=> priv[p] = "running")
    /\ [][\A p \in Procs :
            (restartThreshold = 0 /\ ipc[p] = "enter" /\ ipc'[p] # "enter") =>
                \/ ipc'[p] = "cmd" /\ priv'[p] = "running"
                   /\ argPort'[p] \notin Ports \cup {0}
                \/ /\ ipc'[p] = "idle" /\ priv'[p] = "none"
                   /\ Returned(p)' = [kind |-> "start", wraps |-> "fail"]
                   /\ activeInstancesCount' = activeInstancesCount]_vars
    /\ [][\A p \in Procs :
            (restartThreshold = 0 /\ ipc[p] \in {"cmd", "dec"} /\ Returns(p)) =>
                /\ priv'[p] \in {"stopped", "stopfailed"}
                /\ Returned(p)' = IF ipc[p] = "cmd"
                                  THEN [kind |-> "create", wraps |-> "fail"]
                                  ELSE ExecError(execRes[p], Options(p))]_vars

\* C14 witness: a call whose stop() failed has succeeded while the private
\* listener of another call runs its worker.
C14_Witness ==
    \E p, q \in Procs :
        /\ restartThreshold = 0
        /\ Succeeded(p) /\ priv[p] = "stopfailed"
        /\ ipc[q] = "exec" /\ priv[q] = "running"

\* C15: the unlock of a conversion and the restart it may trigger change
\* nothing of any request, whatever their outcome: a response given stays as
\* it is; and createPNG returns while the listener is still locked, before
\* its unlock has run.
C15_UnlockNotPropagated ==
    /\ [][(unlockGo' < unlockGo \/ (lstate = "Stopping" /\ lstate' # "Stopping"))
            => UNCHANGED <<rvars, ipc, ret, ctxDone, activeInstancesCount>>]_vars
    /\ [][\A p \in Procs :
            Done(p) => resp'[p] = resp[p] /\ result'[p] = result[p]]_vars
    /\ [][\A p \in Procs :
            (restartThreshold > 0 /\ Returns(p) /\ ipc[p] # "enter") =>
                /\ lstate = "Locked" /\ lstate' = "Locked"
                /\ useCount' = useCount /\ port' = port
                /\ unlockGo' = unlockGo + 1]_vars

\* C15 witness: the restart triggered by the unlock of a successful request
\* has failed, and the request is still answered 200.
C15_Witness ==
    \E p \in Procs :
        /\ restartThreshold = 1 /\ lstate = "Stopped"
        /\ Succeeded(p) /\ NumDocs(p) = Len(result[p])
        /\ \A q \in Procs \ {p} : rpc[q] = "idle"

\* C16: whatever the request contexts, cancelled during a worker run or not,
\* the listener is again and again neither locked nor restarting: every lock
\* is released and every restart a release triggers comes to its end (the
\* listener Running again, or Stopped) and changes no context.
C16_RestartNotCancelled ==
    /\ []<>(lstate \notin {"Locked", "Stopping"})
    /\ [][lstate = "Stopping" /\ lstate' # "Stopping"
            => lstate' \in {"Running", "Stopped"} /\ ctxDone' = ctxDone]_vars

\* C16 witness: the only request was cancelled during its worker run, its
\* unlock reached the threshold and the restart has succeeded.
C16_Witness ==
    \E p \in Procs :
        /\ Done(p) /\ resp[p].cause = [kind |-> "unoconv", wraps |-> "cancel"]
        /\ \A q \in Procs \ {p} : rpc[q] = "idle"
        /\ restartThreshold = 1 /\ lstate = "Running" /\ port # 1
        /\ useCount = 0

\* C17: in shared mode a conversion past its lock() (reading the port,
\* creating the command, running the worker) always has the listener Locked,
\* never Stopped; a lock() on a listener left Stopped by a failed restart
\* either starts it again (new port, useCount 0) before it is granted, or
\* returns the failed start to the conversion, which returns it wrapped
\* without running the worker.
C17_StoppedRestarts ==
    /\ [](\A p \in Procs :
            (restartThreshold > 0
                /\ ipc[p] \in {"locked", "cmd", "exec", "ran", "dec"})
                => lstate = "Locked")
    /\ [][\A p \in Procs :
            (lstate = "Stopped" /\ ipc[p] = "enter" /\ ipc'[p] # "enter") =>
                \/ /\ ipc'[p] = "locked" /\ lstate' = "Locked"
                   /\ port' # port /\ useCount' = 0
                \/ /\ ipc'[p] = "idle" /\ lstate' = "Stopped"
                   /\ Returned(p)'.kind = "lock"
                   /\ Returned(p)'.wraps \in {"start", "cancel"}
                   /\ Returned(p)'.wraps = "cancel" => ctxDone[p]
                   /\ activeInstancesCount' = activeInstancesCount]_vars
    /\ [](\A p \in Procs :
            (Done(p) /\ resp[p].cause.kind = "lock")
                => resp[p].status = 500 /\ result[p] = <<>>)

\* C17 witness: after a failed restart a lock() has started the listener
\* again and its conversion runs the worker against the new port.
C17_Witness ==
    \E p \in Procs :
        /\ restartThreshold > 0 /\ useCount = 0 /\ lstate = "Locked"
        /\ ipc[p] = "exec" /\ argPort[p] = port /\ port # 1
        /\ \E q \in Procs \ {p} :
              Done(q) /\ resp[q].cause = [kind |-> "lock", wraps |-> "start"]

\* C18: a conversion waiting in lock() whose context is done (before it
\* called lock(), or while it waited) leaves lock() only with the
\* cancellation error, which createPNG returns wrapped at once: it is never
\* granted the lock, the listener, the pending unlocks and the instance
\* counter are unchanged, nothing is deferred, no worker is run and the
\* request ends with that error; and it can always leave lock(), so it does
\* not stay queued.
C18_LockCancelled ==
    /\ [][\A p \in Procs :
            (restartThreshold > 0 /\ ipc[p] = "enter" /\ ctxDone[p]
                /\ ipc'[p] # "enter") =>
                /\ ipc'[p] = "idle"
                /\ Returned(p)' = [kind |-> "lock", wraps |-> "cancel"]
                /\ UNCHANGED <<lstate, port, useCount, unlockGo,
                               activeInstancesCount>>
                /\ deferred'[p] = "none" /\ execRes'[p] = NoExec]_vars
    /\ [][\A p \in Procs :
            (restartThreshold > 0 /\ ipc[p] = "enter" /\ Returns(p)
                /\ Returned(p)'.wraps = "cancel") => ctxDone[p]]_vars
    /\ [][\A p \in Procs :
            (rpc[p] = "call" /\ rpc'[p] # "call"
                /\ ret[p] = [kind |-> "lock", wraps |-> "cancel"]) =>
                /\ rpc'[p] = "done" /\ resp'[p].status = 500
                /\ resp'[p].cause = ret[p] /\ result'[p] = <<>>
                /\ UNCHANGED <<lvars, activeInstancesCount, ipc>>]_vars
    /\ [](\A p \in Procs :
            (restartThreshold > 0 /\ ipc[p] = "enter" /\ ctxDone[p])
                => ENABLED createPNGLock(p))

\* C18 witness: a conversion has given up waiting for the lock that another
\* conversion holds for its worker run.
C18_Witness ==
    \E p, q \in Procs :
        /\ Done(p) /\ resp[p].cause = [kind |-> "lock", wraps |-> "cancel"]
        /\ Len(calls[p]) = 1
        /\ ipc[q] = "exec" /\ lstate = "Locked" /\ unlockGo = 0

\* The conversions between the increment and the decrement of the counter.
InFlight == {p \in Procs : ipc[p] \in {"exec", "ran"}}

\* C19: in either mode the instance counter equals the number of
\* conversions between their increment and their decrement, so it is never
\* negative and is 0 when none is in flight; it goes up by one when a
\* conversion starts its run, down by one when the conversion returns from
\* the run, whatever the outcome, and changes at no other step.
C19_CounterInvariant ==
    /\ [](activeInstancesCount = Cardinality(InFlight)
            /\ activeInstancesCount >= 0)
    /\ [][\A p \in Procs :
            /\ (ipc[p] = "cmd" /\ ipc'[p] = "exec")
                  => activeInstancesCount' = activeInstancesCount + 1
            /\ (ipc[p] = "ran" /\ ipc'[p] # "ran")
                  => activeInstancesCount' = activeInstancesCount - 1
            /\ (ipc[p] = "exec" /\ ipc'[p] # "exec") => ipc'[p] = "ran"
            /\ (ipc[p] = "ran" /\ ipc'[p] # "ran") => ipc'[p] = "dec"]_vars
    /\ [][activeInstancesCount' # activeInstancesCount =>
            \E p \in Procs : \/ ipc[p] = "cmd" /\ ipc'[p] = "exec"
                             \/ ipc[p] = "ran" /\ ipc'[p] = "dec"]_vars

\* C19 witness: two conversions with private listeners are in flight, one
\* of them with a failed run still to be returned.
C19_Witness ==
    \E p, q \in Procs :
        /\ p # q /\ activeInstancesCount = 2
        /\ ipc[p] = "exec"
        /\ ipc[q] = "ran" /\ execRes[q].err = "exit"

\* C20: under weak fairness of the unlock goroutines, of the worker runs
\* and of the starts of the listener, the waiting in lock() always ends
\* (again and again no conversion is waiting), and a conversion leaves
\* lock() granted the lock or with a cancellation error.
C20_GrantedOrCancelled ==
    /\ []<>(\A p \in Procs : ipc[p] # "enter")
    /\ [][\A p \in Procs :
            (ipc[p] = "enter" /\ ipc'[p] # "enter") =>
                \/ ipc'[p] = "locked" /\ lstate' = "Locked"
                \/ /\ ipc'[p] = "idle"
                   /\ ret'[p] = [kind |-> "lock", wraps |-> "cancel"]]_vars

\* C20 (amended): under the same fairness the waiting in lock() always
\* ends, and a conversion leaves lock() granted the lock or with an error of
\* lock(): the cancellation error, or the failure of the start that lock()
\* attempts on a listener left Stopped by a failed restart.
C20_GrantedOrRefused ==
    /\ []<>(\A p \in Procs : ipc[p] # "enter")
    /\ [][\A p \in Procs :
            (ipc[p] = "enter" /\ ipc'[p] # "enter") =>
                \/ ipc'[p] = "locked" /\ lstate' = "Locked"
                \/ /\ ipc'[p] = "idle" /\ ret'[p].kind = "lock"
                   /\ ret'[p].wraps \in {"cancel", "start"}]_vars

\* C20 witness: a conversion waits in lock() while the unlock of the
\* previous holder has the listener restarting.
C20_Witness ==
    \E p, q \in Procs :
        /\ restartThreshold = 1 /\ lstate = "Stopping"
        /\ Succeeded(q)
        /\ ipc[p] = "enter" /\ ~ctxDone[p]

====
